---- MODULE Spec2Model ----
(***************************************************************************)
(* The 6502 execution core of src/src/cpu.rs: registers, the flat memory,  *)
(* the opcode registry, the address resolver and the fetch-decode-execute  *)
(* loop.  A method of CPU taking &mut self is an operator from a CPU       *)
(* record ("self") to the CPU record it leaves behind; a panic is the      *)
(* field `panic` of that record.                                           *)
(***************************************************************************)
EXTENDS Integers, Sequences, FiniteSets, TLC

\* ------------------------------------------------------------ constants

\* mod cpu_constants
LDA_IMMEDIATE == 169
LDA_ZP == 165
LDA_ZPX == 181
LDA_ABS == 173
LDA_ABSX == 189
LDA_ABSY == 185
LDA_INDX == 161
LDA_INDY == 177
STA_ZP == 133
TAX == 170
TAY == 168
INX == 232
BRK == 0

\* The STA opcodes of the registry that cpu_constants does not name.
STA_ZPX == 149
STA_ABS == 141
STA_ABSX == 157
STA_ABSY == 153
STA_INDX == 129
STA_INDY == 145

\* memory: [u8; 0xFFFF]: the valid indices are 0 .. MemSize - 1 = 0xFFFE.
MemSize == 65535
\* Where load copies the program, and where it writes the reset vector.
ProgramStart == 32768
ResetVector == 65532

U8 == 256
U16 == 65536

\* ------------------------------------------------------------ bounds

\* Host calls of mem_write before and between runs.
MaxWrites == 2
\* Calls of load (load_and_run counts as one).
MaxLoads == 2
\* Calls of run (load_and_run counts as one).
MaxRuns == 1
\* Calls of mem_write_u16 in SpecMem16.
MaxWrites16 == 2
\* Iterations of run's loop that run_burst takes in one step.
MaxBurst == 16384

\* ------------------------------------------------------------ state

VARIABLES
    register_a, status, program_counter, register_x, register_y,
    memory,          \* the non-zero bytes: address -> 1..255, every other byte is 0
    phase,           \* "Ready", "Running", "Halted", "Faulted"
    panic,           \* the panic that ended the call, or "None"
    op,              \* history: the last operation or instruction performed
    prev_op,         \* history: the one before it
    arg,             \* history: the argument of the last operation
    inx_run,         \* history: index-X before the current streak of INX, and its length
    n_writes, n_loads, n_runs

vars == <<register_a, status, program_counter, register_x, register_y, memory,
          phase, panic, op, prev_op, arg, inx_run,
          n_writes, n_loads, n_runs>>

\* The CPU struct as a record, with the panic raised so far.
Self ==
    [register_a |-> register_a, status |-> status,
     program_counter |-> program_counter,
     register_x |-> register_x, register_y |-> register_y,
     memory |-> memory, panic |-> "None"]

\* CPU::new
new ==
    [register_a |-> 0, status |-> 0, program_counter |-> 0,
     register_x |-> 0, register_y |-> 0,
     memory |-> << >>, panic |-> "None"]

Panicked(self) == self.panic # "None"

Raise(self, kind) == [self EXCEPT !.panic = kind]

\* ------------------------------------------------------------ integers

RECURSIVE BitAnd(_, _, _)
\* a & b on n-bit operands
BitAnd(a, b, n) ==
    IF n = 0 THEN 0
    ELSE (a % 2) * (b % 2) + 2 * BitAnd(a \div 2, b \div 2, n - 1)

RECURSIVE BitOr(_, _, _)
\* a | b on n-bit operands
BitOr(a, b, n) ==
    IF n = 0 THEN 0
    ELSE (IF a % 2 = 1 \/ b % 2 = 1 THEN 1 ELSE 0)
         + 2 * BitOr(a \div 2, b \div 2, n - 1)

\* u8::wrapping_add
wrapping_add_u8(a, b) == (a + b) % U8

\* u16::wrapping_add
wrapping_add_u16(a, b) == (a + b) % U16

\* The marker of a u16 `+` that overflowed.
Overflowed == 0 - 2

\* u16 `+` and `+=`.  On overflow a build with overflow checks panics and one
\* without wraps: the model takes neither side, it ends the call with the panic
\* "AddOverflow", and NoOverflow states that no run gets there.
add_u16(a, b) ==
    IF a + b < U16 THEN a + b ELSE Overflowed

\* ------------------------------------------------------------ memory

\* The marker of an index past the end of the array (a panic).
OutOfBounds == 0 - 1

\* self.memory[addr as usize], read
mem_read(self, addr) ==
    IF addr >= MemSize THEN OutOfBounds
    ELSE IF addr \in DOMAIN self.memory THEN self.memory[addr]
    ELSE 0

\* The array with the byte at addr set to data (addr is a valid index).
Store(mem, addr, data) ==
    IF data = 0
    THEN [a \in DOMAIN mem \ {addr} |-> mem[a]]
    ELSE [a \in DOMAIN mem \cup {addr} |-> IF a = addr THEN data ELSE mem[a]]

\* self.memory[addr as usize] = data
mem_write(self, addr, data) ==
    IF addr >= MemSize THEN Raise(self, "IndexOutOfBounds")
    ELSE [self EXCEPT !.memory = Store(self.memory, addr, data)]

\* lo = read(pos); hi = read(pos + 1); (hi << 8) | lo
mem_read_u16(self, pos) ==
    LET lo == mem_read(self, pos) IN
    IF lo < 0 THEN lo
    ELSE LET next == add_u16(pos, 1) IN
         IF next < 0 THEN next
         ELSE LET hi == mem_read(self, next) IN
              IF hi < 0 THEN hi
              ELSE BitOr((hi * 256) % U16, lo, 16)

\* hi = (data >> 8) as u8; lo = (data & 0xff) as u8; write(pos, lo); write(pos + 1, hi)
mem_write_u16(self, pos, data) ==
    LET hi == (data \div 256) % U8
        lo == BitAnd(data, 255, 16) % U8
        s1 == mem_write(self, pos, lo)
    IN  IF Panicked(s1) THEN s1
        ELSE LET next == add_u16(pos, 1) IN
             IF next < 0 THEN Raise(s1, "AddOverflow")
             ELSE mem_write(s1, next, hi)

\* ------------------------------------------------------------ registry

OpCode(opcode, name, takes_bytes, takes_cycles, adressing_mode) ==
    [opcode |-> opcode, name |-> name, takes_bytes |-> takes_bytes,
     takes_cycles |-> takes_cycles, adressing_mode |-> adressing_mode]

\* The registry with the STA ZeroPage entry given the mode of the implied rows.
OPCODES_sta_implied ==
    << OpCode(LDA_IMMEDIATE, "LDA", 2, 2, "Immediate"),
       OpCode(LDA_ZP, "LDA", 2, 3, "ZeroPage"),
       OpCode(LDA_ZPX, "LDA", 2, 4, "ZeroPage_X"),
       OpCode(LDA_ABS, "LDA", 2, 4, "Absolute"),
       OpCode(LDA_ABSX, "LDA", 2, 4, "Absolute_X"),
       OpCode(LDA_ABSY, "LDA", 2, 4, "Absolute_Y"),
       OpCode(LDA_INDX, "LDA", 2, 6, "Indirect_X"),
       OpCode(LDA_INDY, "LDA", 2, 5, "Indirect_Y"),
       OpCode(STA_ZP, "STA", 2, 3, "NoneAddressing"),
       OpCode(STA_ZPX, "STA", 2, 4, "ZeroPage_X"),
       OpCode(STA_ABS, "STA", 3, 4, "Absolute"),
       OpCode(STA_ABSX, "STA", 3, 5, "Absolute_X"),
       OpCode(STA_ABSY, "STA", 3, 5, "Absolute_Y"),
       OpCode(STA_INDX, "STA", 2, 6, "Indirect_X"),
       OpCode(STA_INDY, "STA", 2, 6, "Indirect_Y"),
       OpCode(TAX, "TAX", 1, 2, "NoneAddressing"),
       OpCode(TAY, "TAY", 1, 2, "NoneAddressing"),
       OpCode(INX, "INX", 1, 2, "NoneAddressing"),
       OpCode(BRK, "BRK", 1, 7, "NoneAddressing") >>

\* lazy_static! OPCODES
OPCODES ==
    << OpCode(LDA_IMMEDIATE, "LDA", 2, 2, "Immediate"),
       OpCode(LDA_ZP, "LDA", 2, 3, "ZeroPage"),
       OpCode(LDA_ZPX, "LDA", 2, 4, "ZeroPage_X"),
       OpCode(LDA_ABS, "LDA", 2, 4, "Absolute"),
       OpCode(LDA_ABSX, "LDA", 2, 4, "Absolute_X"),
       OpCode(LDA_ABSY, "LDA", 2, 4, "Absolute_Y"),
       OpCode(LDA_INDX, "LDA", 2, 6, "Indirect_X"),
       OpCode(LDA_INDY, "LDA", 2, 5, "Indirect_Y"),
       OpCode(STA_ZP, "STA", 2, 3, "ZeroPage"),
       OpCode(STA_ZPX, "STA", 2, 4, "ZeroPage_X"),
       OpCode(STA_ABS, "STA", 3, 4, "Absolute"),
       OpCode(STA_ABSX, "STA", 3, 5, "Absolute_X"),
       OpCode(STA_ABSY, "STA", 3, 5, "Absolute_Y"),
       OpCode(STA_INDX, "STA", 2, 6, "Indirect_X"),
       OpCode(STA_INDY, "STA", 2, 6, "Indirect_Y"),
       OpCode(TAX, "TAX", 1, 2, "NoneAddressing"),
       OpCode(TAY, "TAY", 1, 2, "NoneAddressing"),
       OpCode(INX, "INX", 1, 2, "NoneAddressing"),
       OpCode(BRK, "BRK", 1, 7, "NoneAddressing") >>

\* Option::None of find_opcode_by_instruction
None == OpCode(0 - 1, "None", 0, 0, "NoneAddressing")

\* The first entry of the registry with this opcode byte, or None.
find_opcode_by_instruction(instruction) ==
    LET hits == {i \in 1..Len(OPCODES) : OPCODES[i].opcode = instruction} IN
    IF hits = {} THEN None
    ELSE OPCODES[CHOOSE i \in hits : \A j \in hits : i <= j]

\* ------------------------------------------------------------ resolver

\* The marker of the panic of the NoneAddressing arm.
ModeNotSupported == 0 - 3

\* The address the instruction operates on, or the marker of the panic raised.
get_operand_address(self, mode) ==
    CASE mode = "Immediate" -> self.program_counter
      [] mode = "ZeroPage" -> mem_read(self, self.program_counter)
      [] mode = "Absolute" -> mem_read_u16(self, self.program_counter)
      [] mode = "ZeroPage_X" ->
            LET pos == mem_read(self, self.program_counter) IN
            IF pos < 0 THEN pos ELSE wrapping_add_u8(pos, self.register_x)
      [] mode = "ZeroPage_Y" ->
            LET pos == mem_read(self, self.program_counter) IN
            IF pos < 0 THEN pos ELSE wrapping_add_u8(pos, self.register_y)
      [] mode = "Absolute_X" ->
            LET base == mem_read_u16(self, self.program_counter) IN
            IF base < 0 THEN base ELSE wrapping_add_u16(base, self.register_x)
      [] mode = "Absolute_Y" ->
            LET base == mem_read_u16(self, self.program_counter) IN
            IF base < 0 THEN base ELSE wrapping_add_u16(base, self.register_y)
      [] mode = "Indirect_X" ->
            LET base == mem_read(self, self.program_counter) IN
            IF base < 0 THEN base
            ELSE LET ptr == wrapping_add_u8(base, self.register_x)
                     lo == mem_read(self, ptr)
                     hi == mem_read(self, wrapping_add_u8(ptr, 1))
                 IN  BitOr((hi * 256) % U16, lo, 16)
      [] mode = "Indirect_Y" ->
            LET base == mem_read(self, self.program_counter) IN
            IF base < 0 THEN base
            ELSE LET lo == mem_read(self, base)
                     hi == mem_read(self, wrapping_add_u8(base, 1))
                     deref_base == BitOr((hi * 256) % U16, lo, 16)
                 IN  wrapping_add_u16(deref_base, self.register_y)
      [] OTHER -> ModeNotSupported

\* The panic a marker stands for.
PanicOf(marker) ==
    CASE marker = OutOfBounds -> "IndexOutOfBounds"
      [] marker = Overflowed -> "AddOverflow"
      [] marker = ModeNotSupported -> "UnsupportedAddressingMode"
      [] OTHER -> "None"

\* ------------------------------------------------------------ instructions

\* The flag update that sets Zero and Negative and never clears them.
update_zero_and_negative_flags_no_clear(self, result) ==
    LET z == IF result = 0 THEN BitOr(self.status, 2, 8) ELSE self.status
        n == IF BitAnd(result, 128, 8) # 0 THEN BitOr(z, 128, 8) ELSE z
    IN  [self EXCEPT !.status = n]

\* The flag update with the Zero flag assigned (=) where the code ors it in (|=).
update_zero_and_negative_flags_assigns(self, result) ==
    LET z == IF result = 0
             THEN 2
             ELSE BitAnd(self.status, 253, 8)
        n == IF BitAnd(result, 128, 8) # 0
             THEN BitOr(z, 128, 8)
             ELSE BitAnd(z, 127, 8)
    IN  [self EXCEPT !.status = n]

\* Zero (bit 1) and Negative (bit 7) of status from result
update_zero_and_negative_flags(self, result) ==
    LET z == IF result = 0
             THEN BitOr(self.status, 2, 8)
             ELSE BitAnd(self.status, 253, 8)
        n == IF BitAnd(result, 128, 8) # 0
             THEN BitOr(z, 128, 8)
             ELSE BitAnd(z, 127, 8)
    IN  [self EXCEPT !.status = n]

\* CPU::lda
lda(self, mode) ==
    LET addr == get_operand_address(self, mode) IN
    IF addr < 0 THEN Raise(self, PanicOf(addr))
    ELSE LET value == mem_read(self, addr) IN
         IF value < 0 THEN Raise(self, PanicOf(value))
         ELSE update_zero_and_negative_flags(
                  [self EXCEPT !.register_a = value], value)

\* CPU::sta
sta(self, mode) ==
    LET addr == get_operand_address(self, mode) IN
    IF addr < 0 THEN Raise(self, PanicOf(addr))
    ELSE mem_write(self, addr, self.register_a)

\* tax with the flags taken from index-X before the copy.
tax_flags_before_copy(self) ==
    [update_zero_and_negative_flags(self, self.register_x)
        EXCEPT !.register_x = self.register_a]

\* CPU::tax
tax(self) ==
    LET s1 == [self EXCEPT !.register_x = self.register_a] IN
    update_zero_and_negative_flags(s1, s1.register_x)

\* tay with the flags taken from index-Y, the register it wrote.
tay_flags_from_y(self) ==
    LET s1 == [self EXCEPT !.register_y = self.register_a] IN
    update_zero_and_negative_flags(s1, s1.register_y)

\* CPU::tay: the flags are updated from register_x
tay(self) ==
    LET s1 == [self EXCEPT !.register_y = self.register_a] IN
    update_zero_and_negative_flags(s1, s1.register_x)

\* inx with a saturating add: 0xFF stays 0xFF.
inx_saturating(self) ==
    LET s1 == [self EXCEPT !.register_x =
                   IF self.register_x + 1 < U8 THEN self.register_x + 1
                   ELSE U8 - 1] IN
    update_zero_and_negative_flags(s1, s1.register_x)

\* CPU::inx
inx(self) ==
    LET s1 == [self EXCEPT !.register_x = wrapping_add_u8(self.register_x, 1)] IN
    update_zero_and_negative_flags(s1, s1.register_x)

\* The program counter set to n where the code adds n.
advance_assigns(self, n) ==
    [self EXCEPT !.program_counter = n]

\* self.program_counter += n
advance(self, n) ==
    LET next == add_u16(self.program_counter, n) IN
    IF next < 0 THEN Raise(self, PanicOf(next))
    ELSE [self EXCEPT !.program_counter = next]

\* The instruction the next iteration of run's loop fetches: the registry's entry,
\* None for a byte that has none and for a program counter past the array.
Fetched(self) ==
    LET instruction == mem_read(self, self.program_counter) IN
    IF instruction < 0 THEN None ELSE find_opcode_by_instruction(instruction)

\* The loop of run with a byte that has no entry skipped as a one-byte no-op.
run_iteration_skips_unknown(self) ==
    LET instruction == mem_read(self, self.program_counter) IN
    IF instruction < 0 THEN Raise(self, PanicOf(instruction))
    ELSE
    LET op_code == find_opcode_by_instruction(instruction)
        s1 == advance(self, 1)
    IN
    IF Panicked(s1) THEN s1
    ELSE
    CASE op_code.name = "LDA" ->
            LET s2 == lda(s1, op_code.adressing_mode) IN
            IF Panicked(s2) THEN s2 ELSE advance(s2, op_code.takes_bytes - 1)
      [] op_code.name = "STA" ->
            LET s2 == sta(s1, op_code.adressing_mode) IN
            IF Panicked(s2) THEN s2 ELSE advance(s2, op_code.takes_bytes - 1)
      [] op_code.name = "TAX" -> tax(s1)
      [] op_code.name = "TAY" -> tay(s1)
      [] op_code.name = "INX" -> inx(s1)
      [] OTHER -> s1

\* One iteration of the loop of CPU::run; BRK's return leaves the record as
\* fetched, with the program counter past the opcode.
run_iteration(self) ==
    LET instruction == mem_read(self, self.program_counter) IN
    IF instruction < 0 THEN Raise(self, PanicOf(instruction))
    ELSE
    LET op_code == find_opcode_by_instruction(instruction) IN
    IF op_code = None THEN Raise(self, "UnimplementedOpcode")
    ELSE
    LET s1 == advance(self, 1) IN
    IF Panicked(s1) THEN s1
    ELSE
    CASE op_code.name = "LDA" ->
            LET s2 == lda(s1, op_code.adressing_mode) IN
            IF Panicked(s2) THEN s2 ELSE advance(s2, op_code.takes_bytes - 1)
      [] op_code.name = "STA" ->
            LET s2 == sta(s1, op_code.adressing_mode) IN
            IF Panicked(s2) THEN s2 ELSE advance(s2, op_code.takes_bytes - 1)
      [] op_code.name = "TAX" -> tax(s1)
      [] op_code.name = "TAY" -> tay(s1)
      [] op_code.name = "INX" -> inx(s1)
      [] op_code.name = "BRK" -> s1
      [] OTHER -> Raise(s1, "NotYetImplemented")

\* reset that leaves the status as it was.
reset_keeps_status(self) ==
    LET s1 == [self EXCEPT !.register_a = 0, !.register_x = 0]
        pc == mem_read_u16(s1, ResetVector)
    IN  IF pc < 0 THEN Raise(s1, PanicOf(pc))
        ELSE [s1 EXCEPT !.program_counter = pc]

\* CPU::reset
reset(self) ==
    LET s1 == [self EXCEPT !.register_a = 0, !.register_x = 0, !.status = 0]
        pc == mem_read_u16(s1, ResetVector)
    IN  IF pc < 0 THEN Raise(s1, PanicOf(pc))
        ELSE [s1 EXCEPT !.program_counter = pc]

\* The copy that clears the rest of the program area, 0x8000 to the end.
copy_from_slice_clearing(mem, program) ==
    LET area == ProgramStart .. (MemSize - 1)
        set == {ProgramStart + i - 1 : i \in {j \in 1..Len(program) : program[j] # 0}}
    IN  [a \in (DOMAIN mem \ area) \cup set |->
            IF a \in area THEN program[a - ProgramStart + 1] ELSE mem[a]]

\* self.memory[0x8000 .. 0x8000 + program.len()].copy_from_slice(&program[..])
copy_from_slice(mem, program) ==
    LET range == ProgramStart .. (ProgramStart + Len(program) - 1)
        set == {ProgramStart + i - 1 : i \in {j \in 1..Len(program) : program[j] # 0}}
    IN  [a \in (DOMAIN mem \ range) \cup set |->
            IF a \in range THEN program[a - ProgramStart + 1] ELSE mem[a]]

\* load that copies the program and leaves the reset vector as it was.
load_without_vector(self, program) ==
    IF ProgramStart + Len(program) > MemSize
    THEN Raise(self, "SliceIndexOutOfRange")
    ELSE [self EXCEPT !.memory = copy_from_slice(self.memory, program)]

\* load that copies the program to 0x8001 onward.
load_one_byte_late(self, program) ==
    IF ProgramStart + Len(program) > MemSize
    THEN Raise(self, "SliceIndexOutOfRange")
    ELSE mem_write_u16(
             [self EXCEPT !.memory = copy_from_slice(self.memory, <<0>> \o program)],
             ResetVector, ProgramStart)

\* CPU::load: the slice's range is checked before a byte is copied
load(self, program) ==
    IF ProgramStart + Len(program) > MemSize
    THEN Raise(self, "SliceIndexOutOfRange")
    ELSE mem_write_u16(
             [self EXCEPT !.memory = copy_from_slice(self.memory, program)],
             ResetVector, ProgramStart)

\* ------------------------------------------------------------ inputs

\* The programs of the tests.
test_sta == <<LDA_IMMEDIATE, 255, STA_ZP, 22, BRK>>
test_inx_overflow == <<LDA_IMMEDIATE, 255, TAX, INX, INX, BRK>>
test_lda_absolute == <<LDA_ABS, 170, 170, BRK>>
test_lda_absolute_y == <<LDA_IMMEDIATE, 128, TAY, LDA_ABSY, 170, 170, BRK>>

\* Zero page, plain and indexed with a wrap: 17 + 255 = 16 mod 256.
ProgZeroPage == <<LDA_ZP, 16, LDA_IMMEDIATE, 255, TAX, LDA_ZPX, 17, BRK>>

\* A store through every addressing mode of STA.
ProgStores ==
    <<LDA_IMMEDIATE, 128, TAY, TAX, STA_ABS, 16, 2, STA_ZPX, 32,
      STA_ABSX, 0, 2, STA_ABSY, 0, 3, STA_INDX, 144, STA_INDY, 160, BRK>>

\* Loads through both indirect modes, at last through a pointer at 0xFF whose
\* high byte comes from 0x00 and that points at 0xFFFF.
ProgIndirect ==
    <<LDA_INDX, 16, LDA_INDY, 16, LDA_IMMEDIATE, 255, STA_ZP, 255, STA_ZP, 0,
      LDA_INDX, 255>>

\* A load from, and a store to, address 0xFFFF.
ProgLoadTop == <<LDA_ABS, 255, 255>>
ProgStoreTop == <<LDA_IMMEDIATE, 85, STA_ABS, 255, 255>>

\* A load whose indexed address wraps past 0xFFFF to 0x0000; the byte fetched
\* next, 0xFF, has no entry in the registry.
ProgAbsoluteWrap == <<LDA_IMMEDIATE, 1, TAX, LDA_ABSX, 255, 255>>

Programs ==
    <<test_sta, test_inx_overflow, test_lda_absolute, test_lda_absolute_y,
      ProgZeroPage, ProgStores, ProgIndirect, ProgLoadTop, ProgStoreTop,
      ProgAbsoluteWrap>>

RECURSIVE Repeat(_, _)
\* n bytes of value b
Repeat(b, n) ==
    IF n = 0 THEN << >>
    ELSE IF n = 1 THEN <<b>>
    ELSE LET half == Repeat(b, n \div 2) IN
         IF n % 2 = 0 THEN half \o half ELSE half \o half \o <<b>>

\* Programs that end just below the reset vector (0x7FFC bytes), on its first
\* byte (0x7FFD bytes) and on the last byte of the array (0x7FFF bytes), and one
\* that is a byte longer than the array holds from 0x8000 on.
ProgBelowVector == Repeat(BRK, 32763) \o <<TAX>>
ProgOnVector == Repeat(BRK, 32764) \o <<TAX>>
ProgFull == Repeat(BRK, 32764) \o <<INX, INX, INX>>
ProgTooLong == Repeat(BRK, 32768)

LongPrograms ==
    <<test_sta, test_lda_absolute, ProgStores,
      ProgBelowVector, ProgOnVector, ProgFull, ProgTooLong>>

RECURSIVE Repeated(_, _)
\* n copies of the bytes s
Repeated(s, n) ==
    IF n = 0 THEN << >>
    ELSE IF n = 1 THEN s
    ELSE LET half == Repeated(s, n \div 2) IN
         IF n % 2 = 0 THEN half \o half ELSE half \o half \o s

\* A program that fills the array and never halts: an INX, LDA #0 up to 0xFFFA,
\* an STA Absolute at 0xFFFB whose operand is the reset vector load writes at
\* 0xFFFC/0xFFFD, and an INX at 0xFFFE.
ProgRunToTop ==
    <<INX>> \o Repeated(<<LDA_IMMEDIATE, 0>>, 16381) \o <<STA_ABS, BRK, BRK, INX>>

TopPrograms == <<ProgRunToTop>>

\* What the host writes with mem_write before it loads a program: the operands
\* of the tests (0x55 at 0x10 and at 0xAAAA + 0x80) and a reset vector.
Seeds == {<<16, 85>>, <<43818, 85>>, <<ResetVector, 255>>, <<ResetVector + 1, 255>>}

\* ------------------------------------------------------------ actions

Idle == phase \in {"Ready", "Halted"}

\* The fields of the CPU record become the next state.
Commit(s) ==
    /\ register_a' = s.register_a
    /\ status' = s.status
    /\ program_counter' = s.program_counter
    /\ register_x' = s.register_x
    /\ register_y' = s.register_y
    /\ memory' = s.memory
    /\ panic' = s.panic

History(o, a) ==
    /\ op' = o
    /\ prev_op' = op
    /\ arg' = a

NoStreak(s) == inx_run' = [from |-> s.register_x, n |-> 0]

Init ==
    /\ register_a = new.register_a
    /\ status = new.status
    /\ program_counter = new.program_counter
    /\ register_x = new.register_x
    /\ register_y = new.register_y
    /\ memory = new.memory
    /\ panic = "None"
    /\ phase = "Ready"
    /\ op = "new"
    /\ prev_op = "new"
    /\ arg = << >>
    /\ inx_run = [from |-> 0, n |-> 0]
    /\ n_writes = 0
    /\ n_loads = 0
    /\ n_runs = 0

\* The host calls cpu.mem_write(addr, data), as the tests do before they load.
call_mem_write ==
    /\ Idle
    /\ n_writes < MaxWrites
    /\ n_loads = 0
    /\ n_runs = 0
    /\ \E seed \in Seeds :
          LET s == mem_write(Self, seed[1], seed[2]) IN
          /\ Commit(s)
          /\ phase' = IF Panicked(s) THEN "Faulted" ELSE phase
          /\ History("mem_write", seed)
          /\ NoStreak(s)
    /\ n_writes' = n_writes + 1
    /\ UNCHANGED <<n_loads, n_runs>>

\* The host calls cpu.load(program), program one of the list `programs`.
load_call(programs) ==
    /\ Idle
    /\ n_loads < MaxLoads
    /\ \E i \in 1..Len(programs) :
          LET program == programs[i]
              s == load(Self, program)
          IN
          /\ Commit(s)
          /\ phase' = IF Panicked(s) THEN "Faulted" ELSE "Ready"
          /\ History("load", program)
          /\ NoStreak(s)
    /\ n_loads' = n_loads + 1
    /\ UNCHANGED <<n_writes, n_runs>>

call_load == load_call(Programs)

call_load_long == load_call(LongPrograms)

\* The host calls cpu.reset().
call_reset ==
    /\ Idle
    /\ LET s == reset(Self) IN
          /\ Commit(s)
          /\ phase' = IF Panicked(s) THEN "Faulted" ELSE "Ready"
          /\ History("reset", << >>)
          /\ NoStreak(s)
    /\ UNCHANGED <<n_writes, n_loads, n_runs>>

\* The host calls cpu.run(): the loop is entered.
call_run ==
    /\ Idle
    /\ n_runs < MaxRuns
    /\ Commit(Self)
    /\ phase' = "Running"
    /\ History("run", << >>)
    /\ NoStreak(Self)
    /\ n_runs' = n_runs + 1
    /\ UNCHANGED <<n_writes, n_loads>>

\* The host calls cpu.load_and_run(program), program one of the list `programs`:
\* load, reset, and the loop is entered.
load_and_run_call(programs) ==
    /\ Idle
    /\ n_loads < MaxLoads
    /\ n_runs < MaxRuns
    /\ \E i \in 1..Len(programs) :
          LET program == programs[i]
              s1 == load(Self, program)
              s == IF Panicked(s1) THEN s1 ELSE reset(s1)
          IN  /\ Commit(s)
              /\ phase' = IF Panicked(s) THEN "Faulted" ELSE "Running"
              /\ History("load_and_run", program)
              /\ NoStreak(s)
    /\ n_loads' = n_loads + 1
    /\ n_runs' = n_runs + 1
    /\ UNCHANGED <<n_writes>>

call_load_and_run == load_and_run_call(Programs)

\* The programs that fill the array, on a memory the host has not written.
call_load_and_run_top ==
    /\ n_writes = 0
    /\ load_and_run_call(TopPrograms)

\* One iteration of the loop of run: fetch, look up, dispatch.
run_loop ==
    /\ phase = "Running"
    /\ LET s == run_iteration(Self)
           name == Fetched(Self).name
       IN  /\ Commit(s)
           /\ phase' = IF Panicked(s) THEN "Faulted"
                       ELSE IF name = "BRK" THEN "Halted"
                       ELSE "Running"
           /\ History(IF Panicked(s) THEN "panic" ELSE name, << >>)
           /\ inx_run' = IF name = "INX" /\ ~Panicked(s)
                         THEN [inx_run EXCEPT !.n = @ + 1]
                         ELSE [from |-> s.register_x, n |-> 0]
    /\ UNCHANGED <<n_writes, n_loads, n_runs>>

\* The loop of run as a record: the CPU and what run_loop keeps beside it.
LoopState ==
    [self |-> Self, phase |-> phase, op |-> op, prev_op |-> prev_op,
     inx_run |-> inx_run]

\* One iteration of the loop on that record, as run_loop takes it; a loop that
\* has returned or panicked stays as it is.  (A singleton set makes what it
\* ranges over a value, computed once.)
loop_step(ls) ==
    IF ls.phase # "Running" THEN ls
    ELSE CHOOSE r \in
           { [self |-> s,
              phase |-> IF Panicked(s) THEN "Faulted"
                        ELSE IF name = "BRK" THEN "Halted"
                        ELSE "Running",
              op |-> IF Panicked(s) THEN "panic" ELSE name,
              prev_op |-> ls.op,
              inx_run |-> IF name = "INX" /\ ~Panicked(s)
                          THEN [ls.inx_run EXCEPT !.n = @ + 1]
                          ELSE [from |-> s.register_x, n |-> 0]] :
             s \in {run_iteration(ls.self)}, name \in {Fetched(ls.self).name} } : TRUE

RECURSIVE loop_steps(_, _)
\* n iterations of the loop, one after the other: the first half of them, then
\* the rest.
loop_steps(ls, n) ==
    IF n = 0 THEN ls
    ELSE IF n = 1 THEN CHOOSE r \in {loop_step(l) : l \in {ls}} : TRUE
    ELSE CHOOSE r \in {loop_steps(half, n - (n \div 2)) :
                          half \in {loop_steps(ls, n \div 2)}} : TRUE

\* MaxBurst iterations of the loop of run in one step, fewer when the loop
\* returns or panics before.
run_burst ==
    /\ phase = "Running"
    /\ \E ls \in {loop_steps(LoopState, MaxBurst)} :
          /\ Commit(ls.self)
          /\ phase' = ls.phase
          /\ op' = ls.op
          /\ prev_op' = ls.prev_op
          /\ arg' = << >>
          /\ inx_run' = ls.inx_run
    /\ UNCHANGED <<n_writes, n_loads, n_runs>>

Next ==
    \/ call_mem_write
    \/ call_load
    \/ call_reset
    \/ call_run
    \/ call_load_and_run
    \/ run_loop

Spec == Init /\ [][Next]_vars

\* load on programs up to the size of the array, each load on the memory the
\* host's writes and the loads before it left.
NextLoad ==
    \/ call_mem_write
    \/ call_load_long
    \/ call_reset

SpecLoad == Init /\ [][NextLoad]_vars

\* Runs that load + reset start, of programs up to the size of the array.
NextLoaded ==
    \/ call_mem_write
    \/ call_load_and_run
    \/ call_load_and_run_top
    \/ run_burst

SpecLoaded == Init /\ [][NextLoaded]_vars

\* ------------------------------------------------------------ run from any machine state

\* What the host writes before it loads: the operands of the tests, a pointer
\* at 0xFF whose high byte is at 0x00, and an INX in the last byte of the array.
HostWritten ==
    mem_write(mem_write(mem_write(mem_write(mem_write(new,
        16, 85), 43818, 85), 255, 16), 0, 2), MemSize - 1, INX)

\* The values the host sets the pub fields to.
AnyA == {0, 1, 128}
AnyX == {0, 1, 255}
AnyY == {0, 128}
AnyStatus == {0, 125, 255}
AnyPc == {0, ProgramStart, ProgramStart + 1, ProgramStart + 2, ResetVector,
          MemSize - 1, MemSize}

\* A machine the host has written, loaded and set the pub fields of, run entered.
InitAny ==
    /\ register_a \in AnyA
    /\ status \in AnyStatus
    /\ program_counter \in AnyPc
    /\ register_x \in AnyX
    /\ register_y \in AnyY
    /\ \E i \in 1..Len(Programs) : memory = load(HostWritten, Programs[i]).memory
    /\ panic = "None"
    /\ phase = "Running"
    /\ op = "new"
    /\ prev_op = "new"
    /\ arg = << >>
    /\ inx_run = [from |-> register_x, n |-> 0]
    /\ n_writes = 0
    /\ n_loads = 0
    /\ n_runs = 0

NextAny ==
    \/ run_loop
    \/ call_load_and_run

SpecAny == InitAny /\ [][NextAny]_vars

\* run is a plain loop on one thread: an iteration that can be taken is taken.
\* This is weak fairness of run_loop, with ENABLED <<run_loop>>_vars written out
\* as phase = "Running" (an iteration changes the phase or the program counter).
SpecAnyFair ==
    SpecAny /\ (([]<>(phase # "Running")) \/ ([]<> <<run_loop>>_vars))

\* ------------------------------------------------------------ the resolver alone

AddressingModes ==
    <<"Immediate", "ZeroPage", "ZeroPage_X", "ZeroPage_Y", "Absolute",
      "Absolute_X", "Absolute_Y", "Indirect_X", "Indirect_Y", "NoneAddressing">>

\* self.get_operand_address(mode), as lda and sta call it: the program counter
\* is past the opcode.
call_get_operand_address ==
    /\ op = "new"
    /\ program_counter >= 1
    /\ \E m \in 1..Len(AddressingModes) :
          LET mode == AddressingModes[m]
              addr == get_operand_address(Self, mode)
              s == IF addr < 0 THEN Raise(Self, PanicOf(addr)) ELSE Self
          IN  /\ Commit(s)
              /\ phase' = IF Panicked(s) THEN "Faulted" ELSE phase
              /\ History("get_operand_address", <<mode, addr>>)
    /\ UNCHANGED <<inx_run, n_writes, n_loads, n_runs>>

SpecResolve == InitAny /\ [][call_get_operand_address]_vars

\* ------------------------------------------------------------ the flag update alone

\* Every status value the pub field can hold.
InitFlags ==
    /\ register_a = new.register_a
    /\ status \in 0..(U8 - 1)
    /\ program_counter = new.program_counter
    /\ register_x = new.register_x
    /\ register_y = new.register_y
    /\ memory = new.memory
    /\ panic = "None"
    /\ phase = "Ready"
    /\ op = "new"
    /\ prev_op = "new"
    /\ arg = << >>
    /\ inx_run = [from |-> 0, n |-> 0]
    /\ n_writes = 0
    /\ n_loads = 0
    /\ n_runs = 0

\* self.update_zero_and_negative_flags(result), for every result.
call_update_zero_and_negative_flags ==
    /\ op = "new"
    /\ \E result \in 0..(U8 - 1) :
          LET s == update_zero_and_negative_flags(Self, result) IN
          /\ Commit(s)
          /\ History("update_zero_and_negative_flags", <<result, status>>)
    /\ UNCHANGED <<phase, inx_run, n_writes, n_loads, n_runs>>

SpecFlags == InitFlags /\ [][call_update_zero_and_negative_flags]_vars

\* ------------------------------------------------------------ the 16-bit accessors alone

\* Addresses at both ends of the array, of the zero page and of the program.
Addrs16 == {0, 255, 32767, ResetVector, MemSize - 2, MemSize - 1}
Words16 == {0, 1, 255, 256, 32768, 43981, 65535}

\* self.mem_write_u16(pos, data), on the memory the writes before it left.
call_mem_write_u16 ==
    /\ phase = "Ready"
    /\ n_writes < MaxWrites16
    /\ \E pos \in Addrs16, data \in Words16 :
          LET s == mem_write_u16(Self, pos, data) IN
          /\ Commit(s)
          /\ phase' = IF Panicked(s) THEN "Faulted" ELSE phase
          /\ History("mem_write_u16", <<pos, data>>)
    /\ n_writes' = n_writes + 1
    /\ UNCHANGED <<inx_run, n_loads, n_runs>>

SpecMem16 == Init /\ [][call_mem_write_u16]_vars

\* No u16 addition of the program overflows, so a build with overflow checks and
\* one without run alike.
NoOverflow == panic # "AddOverflow"

\* ------------------------------------------------------------ what the claims speak of

\* Bit i of the byte v.
Bit(v, i) == (v \div (2 ^ i)) % 2

\* The byte of memory mem at address a.
ByteOf(mem, a) == IF a \in DOMAIN mem THEN mem[a] ELSE 0

\* Zero and Negative of status st reflect the value v.
FlagsReflect(st, v) ==
    /\ Bit(st, 1) = 1 <=> v = 0
    /\ Bit(st, 7) = 1 <=> v >= 128

\* The operand bytes an addressing mode reads.
OperandBytes(mode) ==
    IF mode \in {"Absolute", "Absolute_X", "Absolute_Y"} THEN 2 ELSE 1

\* The effective address of the addressing modes' table, the operand at p.
TableAddress(mode, p) ==
    LET b == ByteOf(memory, p)
        w == ByteOf(memory, p) + 256 * ByteOf(memory, p + 1)
        word(ptr) == ByteOf(memory, ptr) + 256 * ByteOf(memory, (ptr + 1) % 256)
    IN  CASE mode = "Immediate" -> p
          [] mode = "ZeroPage" -> b
          [] mode = "ZeroPage_X" -> (b + register_x) % 256
          [] mode = "ZeroPage_Y" -> (b + register_y) % 256
          [] mode = "Absolute" -> w
          [] mode = "Absolute_X" -> (w + register_x) % 65536
          [] mode = "Absolute_Y" -> (w + register_y) % 65536
          [] mode = "Indirect_X" -> word((b + register_x) % 256)
          [] mode = "Indirect_Y" -> (word(b) + register_y) % 65536

\* run is about to fetch an instruction of this mnemonic.
Fetching(name) == phase = "Running" /\ Fetched(Self).name = name

\* ------------------------------------------------------------ claims

\* C1: an LDA or STA of any addressing mode leaves the program counter past the
\* opcode byte and every operand byte its mode reads (one, or two for the
\* Absolute modes).
C1_PcPastOperands ==
    [][ ((Fetching("LDA") \/ Fetching("STA")) /\ phase' = "Running")
        => program_counter' = program_counter + 1
                              + OperandBytes(Fetched(Self).adressing_mode) ]_vars

\* C2: fetched in any machine state, an LDA leaves in the accumulator the byte at
\* the effective address of its mode, Zero and Negative reflecting it, and
\* index-X, index-Y and memory as they were.
C2_LdaLoads ==
    [][ Fetching("LDA")
        => /\ phase' = "Running"
           /\ register_a' = ByteOf(memory, TableAddress(Fetched(Self).adressing_mode,
                                                        program_counter + 1))
           /\ FlagsReflect(status', register_a')
           /\ register_x' = register_x
           /\ register_y' = register_y
           /\ memory' = memory ]_vars

\* C3: an STA leaves the accumulator in the byte at the effective address of its
\* mode, and every other byte, the accumulator, index-X, index-Y and the status
\* as they were.
C3_StaStores ==
    [][ Fetching("STA")
        => LET ea == TableAddress(Fetched(Self).adressing_mode, program_counter + 1) IN
           /\ phase' = "Running"
           /\ \A a \in DOMAIN memory \cup DOMAIN memory' \cup {ea} :
                 ByteOf(memory', a) = IF a = ea THEN register_a ELSE ByteOf(memory, a)
           /\ register_a' = register_a
           /\ register_x' = register_x
           /\ register_y' = register_y
           /\ status' = status ]_vars

\* C4: TAX copies the accumulator to index-X, Zero and Negative reflect index-X,
\* the accumulator, index-Y and memory stay, and the program counter moves by 1.
C4_Tax ==
    [][ Fetching("TAX")
        => /\ phase' = "Running"
           /\ register_x' = register_a
           /\ FlagsReflect(status', register_x')
           /\ register_a' = register_a
           /\ register_y' = register_y
           /\ memory' = memory
           /\ program_counter' = program_counter + 1 ]_vars

C4_TaxDone ==
    /\ op = "TAX"
    /\ register_x = 255
    /\ register_a = 255
    /\ status = 128

\* C5: INX leaves (x + 1) mod 256 in index-X, with no fault at 0xFF, and Zero and
\* Negative reflecting it; a streak of n INX from x leaves (x + n) mod 256.
C5_Inx ==
    [][ Fetching("INX")
        => /\ phase' = "Running"
           /\ register_x' = (register_x + 1) % 256
           /\ FlagsReflect(status', register_x')
           /\ inx_run'.n >= 1
           /\ register_x' = (inx_run'.from + inx_run'.n) % 256 ]_vars

C5_InxWrapped ==
    /\ op = "INX"
    /\ inx_run = [from |-> 255, n |-> 2]
    /\ register_x = 1

\* C6: the flag update, for every result v and every prior status s: bit 1 is set
\* iff v = 0, bit 7 iff v has its high bit set, and bits 0, 2, 3, 4, 5 and 6 are
\* those of s.
C6_FlagUpdate ==
    op = "update_zero_and_negative_flags"
    => LET v == arg[1]
           s == arg[2]
       IN  /\ status \in 0..255
           /\ Bit(status, 1) = 1 <=> v = 0
           /\ Bit(status, 7) = 1 <=> Bit(v, 7) = 1
           /\ \A b \in {0, 2, 3, 4, 5, 6} : Bit(status, b) = Bit(s, b)

C6_FlagUpdated ==
    /\ op = "update_zero_and_negative_flags"
    /\ arg = <<0, 253>>
    /\ status = 127

\* C7: for every address in the array and every 16-bit value v, write16(addr, v)
\* then read16(addr) gives v, the low byte at addr and the high byte at addr + 1.
C7_RoundTrip16 ==
    op = "mem_write_u16"
    => /\ phase # "Faulted"
       /\ mem_read_u16(Self, arg[1]) = arg[2]
       /\ mem_read(Self, arg[1]) = arg[2] % 256
       /\ mem_read(Self, arg[1] + 1) = arg[2] \div 256

\* C8 as claimed: after a load of a program that fits, every byte of the program
\* is in memory at 0x8000 + i.
C8_LoadedAsSupplied ==
    (op = "load" /\ phase # "Faulted")
    => \A i \in 1..Len(arg) : mem_read(Self, ProgramStart + i - 1) = arg[i]

\* C8, amended: after a load of a program that fits, every byte of the program
\* that does not lie on the reset vector is in memory at 0x8000 + i, and the
\* reset vector's two bytes are 0x00 and 0x80.
C8_LoadedExceptVector ==
    (op = "load" /\ phase # "Faulted")
    => /\ \A i \in 1..Len(arg) :
             (ProgramStart + i - 1) \notin {ResetVector, ResetVector + 1}
             => mem_read(Self, ProgramStart + i - 1) = arg[i]
       /\ mem_read(Self, ResetVector) = 0
       /\ mem_read(Self, ResetVector + 1) = 128

C8_LoadedFull ==
    /\ op = "load"
    /\ phase = "Ready"
    /\ Len(arg) = MemSize - ProgramStart
    /\ mem_read(Self, MemSize - 1) = INX

\* C9: load then reset, from whatever state, leaves the program counter at
\* 0x8000 (and so does load_and_run as it enters the loop).
C9_LoadResetEntry ==
    [][ ( \/ op = "load" /\ phase = "Ready" /\ op' = "reset"
          \/ op' = "load_and_run" /\ phase' = "Running" )
        => program_counter' = ProgramStart ]_vars

C9_ResetAfterReload ==
    /\ op = "reset"
    /\ prev_op = "load"
    /\ n_loads = 2
    /\ n_runs = 1
    /\ program_counter = ProgramStart

\* C10: reset, from any state, zeroes the accumulator, index-X and the status and
\* sets the program counter to the little-endian word at 0xFFFC/0xFFFD; index-Y
\* and memory stay.
C10_Reset ==
    [][ op' = "reset"
        => /\ phase' = "Ready"
           /\ register_a' = 0
           /\ register_x' = 0
           /\ status' = 0
           /\ program_counter' = ByteOf(memory, ResetVector)
                                 + 256 * ByteOf(memory, ResetVector + 1)
           /\ register_y' = register_y
           /\ memory' = memory ]_vars

C10_ResetAfterRun ==
    /\ op = "reset"
    /\ prev_op = "BRK"
    /\ register_y # 0
    /\ register_a = 0
    /\ program_counter = ProgramStart

\* C11: when run fetches a byte that has no entry in the registry, the run ends
\* Faulted with UnimplementedOpcode, and the registers, the status, the memory
\* and the program counter are those of the state the byte was fetched in.
C11_UnimplementedOpcode ==
    [][ ( /\ phase = "Running"
          /\ program_counter < MemSize
          /\ \A i \in 1..Len(OPCODES) :
                OPCODES[i].opcode # ByteOf(memory, program_counter) )
        => /\ phase' = "Faulted"
           /\ panic' = "UnimplementedOpcode"
           /\ UNCHANGED <<register_a, register_x, register_y, status, memory,
                          program_counter>> ]_vars

C11_Unimplemented ==
    /\ phase = "Faulted"
    /\ panic = "UnimplementedOpcode"
    /\ op = "panic"
    /\ ByteOf(memory, program_counter) = 255
    /\ register_x = 1

\* C12: a run that load + reset started, of a program that fits, ends Halted or
\* Faulted with UnimplementedOpcode or UnsupportedAddressingMode: no read or
\* write of an instruction leaves the memory and no addition overflows.
C12_OnlyTwoFaults ==
    phase = "Faulted"
    => panic \in {"UnimplementedOpcode", "UnsupportedAddressingMode"}

\* C13: in a run that load + reset started, of a program that fits, the program
\* counter is an index of the memory (0x0000 .. 0xFFFE) at every fetch.
C13_PcValidAtFetch ==
    phase = "Running" => program_counter \in 0..(MemSize - 1)

\* C14: every run terminates: from any machine state the loop reaches Halted or
\* Faulted, every iteration that neither halts nor faults moves the program
\* counter up, and no iteration moves it down.
C14_RunTerminates ==
    /\ (phase = "Running") ~> (phase \in {"Halted", "Faulted"})
    /\ [][ phase = "Running"
           => /\ program_counter' >= program_counter
              /\ phase' = "Running" => program_counter' > program_counter ]_vars

C14_RanOffTheTop ==
    /\ phase = "Faulted"
    /\ panic = "IndexOutOfBounds"
    /\ program_counter = MemSize
    /\ op = "panic"
    /\ prev_op = "INX"

\* C15: for every addressing mode with an operand, every program counter,
\* index-X, index-Y and memory, the resolver returns the effective address of
\* the addressing modes' table, and it changes neither the program counter, nor
\* a register, nor the memory.
C15_ResolverTable ==
    [][ (op' = "get_operand_address" /\ arg'[1] # "NoneAddressing")
        => /\ arg'[2] = TableAddress(arg'[1], program_counter)
           /\ UNCHANGED <<register_a, register_x, register_y, status, memory,
                          program_counter>> ]_vars

\* C16: TAY, for every accumulator and index-X: index-Y becomes the accumulator,
\* Zero and Negative reflect index-X (not index-Y), and the accumulator, index-X
\* and memory stay.
C16_Tay ==
    [][ Fetching("TAY")
        => /\ phase' = "Running"
           /\ register_y' = register_a
           /\ FlagsReflect(status', register_x)
           /\ register_a' = register_a
           /\ register_x' = register_x
           /\ memory' = memory ]_vars

C16_TayFlagsOfX ==
    /\ op = "TAY"
    /\ register_y = 128
    /\ register_x = 0
    /\ Bit(status, 1) = 1
    /\ Bit(status, 7) = 0

\* C17: in no run is the resolver invoked with NoneAddressing: the entry of every
\* LDA and STA that run fetches carries a mode with an operand, and no run ends
\* with the UnsupportedAddressingMode fault.
C17_NeverNoneAddressing ==
    [][ /\ panic' # "UnsupportedAddressingMode"
        /\ (Fetching("LDA") \/ Fetching("STA"))
           => Fetched(Self).adressing_mode # "NoneAddressing" ]_vars

C17_Resolved ==
    /\ op = "STA"
    /\ prev_op = "LDA"
    /\ register_a = 255
    /\ ByteOf(memory, 22) = 255

\* C18: no iteration of run's loop changes a status bit other than Zero (bit 1)
\* and Negative (bit 7), so these bits are throughout a run what they were when
\* it started; once load_and_run was called they are all 0.
C18_OtherBitsKept ==
    /\ [][ phase = "Running"
           => \A b \in {0, 2, 3, 4, 5, 6} : Bit(status', b) = Bit(status, b) ]_vars
    /\ [](n_runs > 0 => \A b \in {0, 2, 3, 4, 5, 6} : Bit(status, b) = 0)

C18_BitsKeptSet ==
    /\ op = "STA"
    /\ prev_op = "LDA"
    /\ n_runs = 0
    /\ register_a = 255
    /\ status = 253

\* C19: load(bytes) changes only the memory bytes in [0x8000, 0x8000 + len) and
\* the reset vector's two bytes: every other byte and the registers, the status
\* and the program counter stay; a second load of the same bytes changes nothing.
C19_LoadFrame ==
    [][ (op' = "load" /\ phase' # "Faulted")
        => /\ \A a \in DOMAIN memory \cup DOMAIN memory' :
                 ( /\ a \notin ProgramStart .. (ProgramStart + Len(arg') - 1)
                   /\ a \notin {ResetVector, ResetVector + 1} )
                 => ByteOf(memory', a) = ByteOf(memory, a)
           /\ UNCHANGED <<register_a, register_x, register_y, status,
                          program_counter>>
           /\ load(Self', arg') = Self' ]_vars

C19_ShorterReload ==
    /\ op = "load"
    /\ prev_op = "BRK"
    /\ Len(arg) = 5
    /\ ByteOf(memory, ProgramStart + 17) = STA_INDY
    /\ register_a = 128
    /\ register_y = 128
====
